---------------------------- MODULE Spec2Model ----------------------------
(***************************************************************************)
(* Model of the example backend dapp (src/app/app.js): the App object's    *)
(* startup sequence, its balance-refresh timer chain, its Transfer event   *)
(* subscription and its Express route handlers.                            *)
(*                                                                         *)
(* The process is a single-threaded event loop: every action below is one  *)
(* run-to-completion callback (a promise continuation, a timer callback,   *)
(* an event handler or a route handler).  RPC calls are asynchronous: a    *)
(* call is issued by one action and settled (resolved or rejected) by a    *)
(* later one, after an arbitrary delay.                                    *)
(***************************************************************************)
EXTENDS Integers, Sequences, FiniteSets, TLC

\* ------------------------------------------------------------- bounds
\* Number of refresh-timer firings explored.
MaxTicks == 3
\* Number of Transfer stream events (data or error) explored.
MaxEvents == 2

\* ------------------------------------------------------------- values
\* A field of the App object that was never assigned (JavaScript undefined).
Unset == "undefined"
\* The rejection value of a failed RPC call.
RpcError == "Error: rpc failed"
\* Accounts the signing provider may expose.
Accounts == {"0xA1", "0xA2"}
\* Account lists web3.eth.getAccounts() may resolve to.
AccountLists == {<<>>, <<"0xA1">>, <<"0xA2", "0xA1">>}
\* Wei balances web3.eth.getBalance() may resolve to.
Balances == {"100", "200"}
\* Network ids web3.eth.net.getId() may resolve to.
NetworkIds == {"1", "4"}
\* The artifact's entry for a network without a recorded deployment address.
NoAddress == ""
\* Deployment addresses an artifact may record.
Addresses == {"0xC0"}
\* Names the contract's name() may return.
Names == {"Token"}
\* Artifact bundles: for each network id, the recorded address or none.
ArtifactBundles == [NetworkIds -> Addresses \cup {NoAddress}]

\* Outcomes of an asynchronous call: resolved with a value or rejected.
Resolved(v) == [ok |-> TRUE, val |-> v]
Rejected == [ok |-> FALSE, val |-> RpcError]
Outcomes(S) == {Resolved(v) : v \in S} \cup {Rejected}

VARIABLES
    pc,             \* position of start(): the await it is suspended at
    artifacts,      \* the contract artifact's networks table (read-only input)
    currentAccount, \* this.currentAccount
    balance,        \* this.balance
    networkId,      \* this.networkId
    contract,       \* this.contract (the handle's options.address) or Unset
    name,           \* this.name
    listening,      \* number of app.listen() calls made
    timers,         \* number of pending setTimeout callbacks of updateBalance
    issued,         \* number of getBalance queries the refresh loop has issued
    inflight,       \* refresh-loop queries issued and not yet settled
    written,        \* writes of this.balance by the refresh loop, in order:
                    \* which query resolved and the value it stored
    subscriptions,  \* number of Transfer subscriptions created
    events,         \* number of Transfer 'data' events logged
    streamErrors,   \* number of Transfer stream 'error' events logged
    calls,          \* per startup step, how many times its call was issued
    errorLog,       \* the errors passed to console.error, in order
    exitCode,       \* the codes process.exit() was called with: <<>> while running
    rootResponse,   \* the body of the last GET / response, <<>> if none
    req,            \* the HTTP request being served, NoRequest if none
    route,          \* the route whose handler Express dispatched req to
    hpc,            \* position of that handler: the call it is waiting on
    tokenId,        \* POST /tokens/new: the generated id, a hex string
    tokenURI,       \* POST /tokens/new: the token URI built for the mint
    gas,            \* POST /tokens/new: the gas estimate
    owned,          \* /:ownerAddress/tokens: the balanceOf result, <<>> before it
    promises,       \* state of the promises req waits on: the per-index calls
                    \* of /:ownerAddress/tokens, the one call of a read route
    settled,        \* /:ownerAddress/tokens: per-index calls in completion order
    contractCalls,  \* contract method invocations made for req, in order
    responses       \* bodies passed to res.send for req, in order

\* Variable groups.
appVars == <<currentAccount, balance, networkId, contract, name>>
loopVars == <<timers, issued, inflight, written>>
eventVars == <<subscriptions, events, streamErrors>>
procVars == <<errorLog, exitCode>>
httpVars == <<req, route, hpc, tokenId, tokenURI, gas, owned, promises, settled,
              contractCalls, responses>>
srvVars == <<pc, artifacts, currentAccount, balance, networkId, contract, name,
             listening, timers, issued, inflight, written, subscriptions,
             events, streamErrors, calls, errorLog, exitCode, rootResponse>>
vars == <<srvVars, httpVars>>

\* No request is being served.
NoRequest == [method |-> "none", path |-> <<>>, to |-> Unset]
HttpIdle ==
    /\ req = NoRequest
    /\ route = "none"
    /\ hpc = "idle"
    /\ tokenId = <<>>
    /\ tokenURI = Unset
    /\ gas = Unset
    /\ owned = <<>>
    /\ promises = <<>>
    /\ settled = <<>>
    /\ contractCalls = <<>>
    /\ responses = <<>>

StartSteps == {"getAccounts", "getBalance", "getId", "deployed", "name"}

\* The state after `new App(...)`: no field but provider/web3/app is assigned.
Init ==
    /\ pc = "constructed"
    /\ artifacts \in ArtifactBundles
    /\ currentAccount = Unset
    /\ balance = Unset
    /\ networkId = Unset
    /\ contract = Unset
    /\ name = Unset
    /\ listening = 0
    /\ timers = 0
    /\ issued = 0
    /\ inflight = {}
    /\ written = <<>>
    /\ subscriptions = 0
    /\ events = 0
    /\ streamErrors = 0
    /\ calls = [s \in StartSteps |-> 0]
    /\ errorLog = <<>>
    /\ exitCode = <<>>
    /\ rootResponse = <<>>
    /\ HttpIdle

\* The process is alive: process.exit() has not been called.
Running == exitCode = <<>>

\* ------------------------------------------------------------ start()
\* The rejection of Contract.deployed() for a network without a deployment.
ContractNotDeployedOnNetwork == "ContractNotDeployedOnNetwork"
\* The error start() throws when the provider exposes no account.
NoAccountFound == "Error: No account found"

\* Mutant of catchExit: the error is logged but the process is not ended.
catchLogOnly(error) ==
    /\ errorLog' = Append(errorLog, error)
    /\ UNCHANGED <<pc, exitCode>>

\* The catch block of start(): log the error and exit with code 1.  start()
\* never resumes, so pc stays at the step that failed.
catchExit(error) ==
    /\ errorLog' = Append(errorLog, error)
    /\ exitCode' = Append(exitCode, 1)
    /\ UNCHANGED pc

\* Issuing the call of startup step s.
issue(s) == calls' = [calls EXCEPT ![s] = @ + 1]

\* createServer(port): registers the routes and calls app.listen(port).
createServer == listening' = listening + 1

\* updateBalance(): arms one 60-second timer; t is the number of timers
\* pending when it is called, the result the number pending afterwards.
updateBalance(t) == t + 1

\* watchTransferEvents(): subscribes to the contract's Transfer events.
watchTransferEvents == subscriptions' = subscriptions + 1

\* app.start(port) is called: start() runs up to its first await.
start ==
    /\ Running /\ pc = "constructed"
    /\ pc' = "getAccounts"
    /\ issue("getAccounts")
    /\ UNCHANGED <<artifacts, appVars, listening, loopVars, eventVars,
                   procVars, rootResponse>>
    /\ UNCHANGED httpVars

\* getAccounts() settles: an empty list or a rejection goes to the catch
\* block; otherwise the first account is kept and getBalance is awaited.
startGetAccounts ==
    /\ Running /\ pc = "getAccounts"
    /\ \E r \in Outcomes(AccountLists) :
          IF r.ok /\ Len(r.val) # 0
          THEN /\ currentAccount' = r.val[1]
               /\ pc' = "getBalance"
               /\ issue("getBalance")
               /\ UNCHANGED procVars
          ELSE /\ catchExit(IF r.ok THEN NoAccountFound ELSE r.val)
               /\ UNCHANGED <<currentAccount, calls>>
    /\ UNCHANGED <<artifacts, balance, networkId, contract, name, listening,
                   loopVars, eventVars, rootResponse>>
    /\ UNCHANGED httpVars

\* getBalance(currentAccount) settles during startup.
startGetBalance ==
    /\ Running /\ pc = "getBalance"
    /\ \E r \in Outcomes(Balances) :
          IF r.ok
          THEN /\ balance' = r.val
               /\ pc' = "getId"
               /\ issue("getId")
               /\ UNCHANGED procVars
          ELSE /\ catchExit(r.val)
               /\ UNCHANGED <<balance, calls>>
    /\ UNCHANGED <<artifacts, currentAccount, networkId, contract, name,
                   listening, loopVars, eventVars, rootResponse>>
    /\ UNCHANGED httpVars

\* Mutant of startGetId: the server is created before the contract handle
\* is resolved.
startGetIdListenFirst ==
    /\ Running /\ pc = "getId"
    /\ \E r \in Outcomes(NetworkIds) :
          IF r.ok
          THEN /\ networkId' = r.val
               /\ createServer
               /\ pc' = "deployed"
               /\ issue("deployed")
               /\ UNCHANGED procVars
          ELSE /\ catchExit(r.val)
               /\ UNCHANGED <<networkId, calls, listening>>
    /\ UNCHANGED <<artifacts, currentAccount, balance, contract, name,
                   loopVars, eventVars, rootResponse>>
    /\ UNCHANGED httpVars

\* net.getId() settles: the id is kept and Contract.deployed() is awaited.
startGetId ==
    /\ Running /\ pc = "getId"
    /\ \E r \in Outcomes(NetworkIds) :
          IF r.ok
          THEN /\ networkId' = r.val
               /\ pc' = "deployed"
               /\ issue("deployed")
               /\ UNCHANGED procVars
          ELSE /\ catchExit(r.val)
               /\ UNCHANGED <<networkId, calls>>
    /\ UNCHANGED <<artifacts, currentAccount, balance, contract, name,
                   listening, loopVars, eventVars, rootResponse>>
    /\ UNCHANGED httpVars

\* Contract.deployed(): the address the artifact records for the network id,
\* or a rejection when it records none.
deployed(networks, id) ==
    IF networks[id] # NoAddress
    THEN Resolved(networks[id])
    ELSE [ok |-> FALSE, val |-> ContractNotDeployedOnNetwork]

\* Mutant of startDeployed: the server is created as soon as the handle is
\* resolved, before the name is cached.
startDeployedListensEarly ==
    /\ Running /\ pc = "deployed"
    /\ LET r == deployed(artifacts, networkId) IN
          IF r.ok
          THEN /\ contract' = r.val
               /\ createServer
               /\ pc' = "name"
               /\ issue("name")
               /\ UNCHANGED procVars
          ELSE /\ catchExit(r.val)
               /\ UNCHANGED <<contract, calls, listening>>
    /\ UNCHANGED <<artifacts, currentAccount, balance, networkId, name,
                   loopVars, eventVars, rootResponse>>
    /\ UNCHANGED httpVars

\* deployed() settles: the handle is kept and name() is called.
startDeployed ==
    /\ Running /\ pc = "deployed"
    /\ LET r == deployed(artifacts, networkId) IN
          IF r.ok
          THEN /\ contract' = r.val
               /\ pc' = "name"
               /\ issue("name")
               /\ UNCHANGED procVars
          ELSE /\ catchExit(r.val)
               /\ UNCHANGED <<contract, calls>>
    /\ UNCHANGED <<artifacts, currentAccount, balance, networkId, name,
                   listening, loopVars, eventVars, rootResponse>>
    /\ UNCHANGED httpVars

\* Mutant of startName: a rejected name() is logged and startup goes on with
\* the name left unset.
startNameNonFatal ==
    /\ Running /\ pc = "name"
    /\ \E r \in Outcomes(Names) :
          /\ IF r.ok
             THEN name' = r.val /\ UNCHANGED errorLog
             ELSE errorLog' = Append(errorLog, r.val) /\ UNCHANGED name
          /\ createServer
          /\ timers' = updateBalance(timers)
          /\ watchTransferEvents
          /\ pc' = "started"
          /\ UNCHANGED exitCode
    /\ UNCHANGED <<artifacts, currentAccount, balance, networkId, contract,
                   issued, inflight, written, events, streamErrors, calls,
                   rootResponse>>
    /\ UNCHANGED httpVars

\* name().call() settles: on success the name is cached, the server is
\* created, the refresh timer armed and the Transfer subscription made; a
\* rejection is inside the same try block and goes to the catch block.
startName ==
    /\ Running /\ pc = "name"
    /\ \E r \in Outcomes(Names) :
          IF r.ok
          THEN /\ name' = r.val
               /\ createServer
               /\ timers' = updateBalance(timers)
               /\ watchTransferEvents
               /\ pc' = "started"
               /\ UNCHANGED procVars
          ELSE /\ catchExit(r.val)
               /\ UNCHANGED <<name, listening, timers, subscriptions>>
    /\ UNCHANGED <<artifacts, currentAccount, balance, networkId, contract,
                   issued, inflight, written, events, streamErrors, calls,
                   rootResponse>>
    /\ UNCHANGED httpVars

\* ---------------------------------------------------- updateBalance()
\* The timer callback: issue getBalance without awaiting it, then call
\* updateBalance() again, which arms the next timer at once.
refreshTick ==
    /\ Running /\ timers > 0 /\ issued < MaxTicks
    /\ issued' = issued + 1
    /\ inflight' = inflight \cup {issued + 1}
    /\ timers' = updateBalance(timers - 1)
    /\ UNCHANGED <<pc, artifacts, appVars, listening, written, eventVars, calls,
                   procVars, rootResponse>>
    /\ UNCHANGED httpVars

\* The .then callback of a refresh query: overwrite this.balance and log it.
balanceResolved ==
    /\ Running
    /\ \E q \in inflight, b \in Balances :
          /\ inflight' = inflight \ {q}
          /\ balance' = b
          /\ written' = Append(written, [query |-> q, balance |-> b])
    /\ UNCHANGED <<pc, artifacts, currentAccount, networkId, contract, name,
                   listening, timers, issued, eventVars, calls, procVars,
                   rootResponse>>
    /\ UNCHANGED httpVars

\* Mutant of balanceRejected: a failed query also clears the stored balance.
balanceRejectedClearsBalance ==
    /\ Running
    /\ \E q \in inflight :
          /\ inflight' = inflight \ {q}
          /\ errorLog' = Append(errorLog, RpcError)
    /\ balance' = Unset
    /\ UNCHANGED <<pc, artifacts, currentAccount, networkId, contract, name,
                   listening, timers, issued, written, eventVars, calls,
                   exitCode, rootResponse>>
    /\ UNCHANGED httpVars

\* The .catch callback of a refresh query: log the error, nothing else.
balanceRejected ==
    /\ Running
    /\ \E q \in inflight :
          /\ inflight' = inflight \ {q}
          /\ errorLog' = Append(errorLog, RpcError)
    /\ UNCHANGED <<pc, artifacts, appVars, listening, timers, issued, written,
                   eventVars, calls, exitCode, rootResponse>>
    /\ UNCHANGED httpVars

\* ----------------------------------------------- watchTransferEvents()
\* Mutant of transferData: the handler also refreshes the stored balance.
transferDataWritesBalance ==
    /\ Running /\ subscriptions > 0 /\ events + streamErrors < MaxEvents
    /\ events' = events + 1
    /\ \E b \in Balances : balance' = b
    /\ UNCHANGED <<pc, artifacts, currentAccount, networkId, contract, name,
                   listening, loopVars, subscriptions, streamErrors, calls,
                   procVars, rootResponse>>
    /\ UNCHANGED httpVars

\* The 'data' handler: log the transfer.
transferData ==
    /\ Running /\ subscriptions > 0 /\ events + streamErrors < MaxEvents
    /\ events' = events + 1
    /\ UNCHANGED <<pc, artifacts, appVars, listening, loopVars,
                   subscriptions, streamErrors, calls, procVars, rootResponse>>
    /\ UNCHANGED httpVars

\* Mutant of transferError: the handler subscribes again.
transferErrorResubscribes ==
    /\ Running /\ subscriptions > 0 /\ events + streamErrors < MaxEvents
    /\ streamErrors' = streamErrors + 1
    /\ watchTransferEvents
    /\ UNCHANGED <<pc, artifacts, appVars, listening, loopVars, events, calls,
                   procVars, rootResponse>>
    /\ UNCHANGED httpVars

\* The 'error' handler: log through console.log, no resubscription.
transferError ==
    /\ Running /\ subscriptions > 0 /\ events + streamErrors < MaxEvents
    /\ streamErrors' = streamErrors + 1
    /\ UNCHANGED <<pc, artifacts, appVars, listening, loopVars,
                   subscriptions, events, calls, procVars, rootResponse>>
    /\ UNCHANGED httpVars

\* ------------------------------------------------------------- GET /
\* The status route: send the App object's fields as they are now.
getRoot ==
    /\ Running /\ listening > 0
    /\ rootResponse' = <<[networkId |-> networkId, contractAddress |-> contract,
                          address |-> currentAccount, balance |-> balance,
                          name |-> name]>>
    /\ UNCHANGED <<pc, artifacts, appVars, listening, loopVars, eventVars,
                   calls, procVars>>
    /\ UNCHANGED httpVars

Next ==
    \/ start
    \/ startGetAccounts
    \/ startGetBalance
    \/ startGetId
    \/ startDeployed
    \/ startName
    \/ refreshTick
    \/ balanceResolved
    \/ balanceRejected
    \/ transferData
    \/ transferError
    \/ getRoot

Spec == Init /\ [][Next]_vars


\* =========================================================== HTTP routes
\* Strings that the routes inspect are sequences of one-character strings.
Str_tokens == <<"t", "o", "k", "e", "n", "s">>
Str_balance == <<"b", "a", "l", "a", "n", "c", "e">>
Str_new == <<"n", "e", "w">>
Str_tokenURI == <<"t", "o", "k", "e", "n", "U", "R", "I">>
Str_abi == <<"a", "b", "i">>
Str_totalSupply == <<"t", "o", "t", "a", "l", "S", "u", "p", "p", "l", "y">>
Str_name == <<"n", "a", "m", "e">>
Str_mintLimit == <<"m", "i", "n", "t", "L", "i", "m", "i", "t">>
Str_symbol == <<"s", "y", "m", "b", "o", "l">>

\* A literal path segment and a named path parameter of a route pattern.
Lit(seg) == [kind |-> "lit", text |-> seg]
Param(p) == [kind |-> "param", text |-> p]

\* The routes in the order createServer registers them.
Routes == <<
    [handler |-> "root",          method |-> "GET",  pattern |-> <<>>],
    [handler |-> "abi",           method |-> "GET",  pattern |-> <<Lit(Str_abi)>>],
    [handler |-> "totalSupply",   method |-> "GET",  pattern |-> <<Lit(Str_totalSupply)>>],
    [handler |-> "name",          method |-> "GET",  pattern |-> <<Lit(Str_name)>>],
    [handler |-> "mintLimit",     method |-> "GET",  pattern |-> <<Lit(Str_mintLimit)>>],
    [handler |-> "symbol",        method |-> "GET",  pattern |-> <<Lit(Str_symbol)>>],
    [handler |-> "ownerTokens",   method |-> "GET",
        pattern |-> <<Param("ownerAddress"), Lit(Str_tokens)>>],
    [handler |-> "ownerBalance",  method |-> "GET",
        pattern |-> <<Param("ownerAddress"), Lit(Str_balance)>>],
    [handler |-> "tokenMetadata", method |-> "GET",
        pattern |-> <<Lit(Str_tokens), Param("tokenId")>>],
    [handler |-> "tokenURI",      method |-> "GET",
        pattern |-> <<Lit(Str_tokenURI), Param("tokenId")>>],
    [handler |-> "mint",          method |-> "POST",
        pattern |-> <<Lit(Str_tokens), Lit(Str_new)>> ] >>

\* A route pattern matches a path when they have the same number of segments,
\* every literal equals its segment and every parameter gets a non-empty one.
matches(pattern, path) ==
    /\ Len(pattern) = Len(path)
    /\ \A i \in 1..Len(pattern) :
          IF pattern[i].kind = "lit"
          THEN pattern[i].text = path[i]
          ELSE path[i] # <<>>

\* Express runs the first registered route that matches method and path; no
\* handler calls next(), so no later route sees the request.
dispatch(r) ==
    LET hits == {i \in 1..Len(Routes) :
                    Routes[i].method = r.method /\ matches(Routes[i].pattern, r.path)}
    IN  IF hits = {} THEN "notFound"
        ELSE Routes[CHOOSE i \in hits : \A j \in hits : i <= j].handler

\* The value of path parameter p of request r under the route dispatched to.
param(r, p) ==
    LET i == CHOOSE i \in 1..Len(Routes) : Routes[i].handler = dispatch(r)
        k == CHOOSE k \in 1..Len(Routes[i].pattern) :
                Routes[i].pattern[k] = Param(p)
    IN  r.path[k]

\* ------------------------------------------------------------ inputs
\* Longest token id typed into a path, in characters.
MaxIdLen == 2
\* Largest balanceOf result explored.
MaxOwned == 2
\* Characters a typed token id is made of.
IdChars == {"0", "7", "x"}
\* Token ids requested through /tokens/:tokenId.
TokenIdInputs ==
    UNION {[1..n -> IdChars] : n \in 1..MaxIdLen}
        \cup {Str_tokens, Str_balance, Str_new}
\* Owner addresses requested through /:ownerAddress/tokens.
OwnerInputs == {<<"0", "x", "a">>, Str_tokens}
\* Values of the `to` query parameter of POST /tokens/new.
ToInputs == {Unset, "0xB0"}
\* Token ids tokenOfOwnerByIndex may return.
TokenValues == {"11", "22"}
\* Image indexes imageId may return.
ImageIds == {"1", "2"}
\* Requests the model serves.
Requests ==
    {[method |-> "GET", path |-> <<Str_tokens, id>>, to |-> Unset] :
        id \in TokenIdInputs}
    \cup {[method |-> "GET", path |-> <<o, Str_tokens>>, to |-> Unset] :
        o \in OwnerInputs}
    \cup {[method |-> "POST", path |-> <<Str_tokens, Str_new>>, to |-> t] :
        t \in ToInputs}
    \cup {[method |-> "GET", path |-> <<seg>>, to |-> Unset] :
        seg \in {Str_abi, Str_totalSupply, Str_name, Str_mintLimit, Str_symbol}}
    \cup {[method |-> "GET", path |-> <<Str_tokenURI, id>>, to |-> Unset] :
        id \in {<<"7">>, <<"x">>}}

\* The App after a successful start(): the state every request is served in.
Started ==
    /\ pc = "started"
    /\ artifacts \in ArtifactBundles
    /\ networkId \in NetworkIds
    /\ artifacts[networkId] # NoAddress
    /\ \A n \in NetworkIds : n # networkId => artifacts[n] = NoAddress
    /\ contract = artifacts[networkId]
    /\ currentAccount \in Accounts
    /\ balance = "100"
    /\ name \in Names
    /\ listening = 1
    /\ timers = 1
    /\ issued = 0
    /\ inflight = {}
    /\ written = <<>>
    /\ subscriptions = 1
    /\ events = 0
    /\ streamErrors = 0
    /\ calls = [s \in StartSteps |-> 1]
    /\ errorLog = <<>>
    /\ exitCode = <<>>
    /\ rootResponse = <<>>

\* A request has arrived at the listening server and waits to be dispatched.
HttpInit ==
    /\ Started
    /\ req \in Requests
    /\ route = "none"
    /\ hpc = "arrived"
    /\ tokenId = <<>>
    /\ tokenURI = Unset
    /\ gas = Unset
    /\ owned = <<>>
    /\ promises = <<>>
    /\ settled = <<>>
    /\ contractCalls = <<>>
    /\ responses = <<>>

\* Express hands req to the handler named h.
arrives(h) == Running /\ listening > 0 /\ hpc = "arrived" /\ dispatch(req) = h

\* A JavaScript string inside a response body: its text, in pieces.
JsString(pieces) == [str |-> pieces]
\* A contract method invocation.
Call(method, args) == [method |-> method, args |-> args]
\* res.send(body).
send(body) == responses' = Append(responses, body)
\* An Error object and what its toString() gives.
ErrorObject(message) == [message |-> message]
toString(e) == JsString(<<"Error: ", e.message>>)
\* What a rejected contract call rejects with.
CallError == ErrorObject("call failed")

\* ------------------------------------------------ GET /tokens/:tokenId
\* /^\d+$/: one or more characters, all decimal digits ($ without the m flag
\* matches at the end of the input only).
isDigit(c) == c \in {"0", "1", "2", "3", "4", "5", "6", "7", "8", "9"}
matchDigits(str) == Len(str) >= 1 /\ \A i \in 1..Len(str) : isDigit(str[i])

\* The body sent for a token id that fails validation.
InvalidTokenId == [error |-> [message |-> JsString(<<"Invalid token id passed">>)]]

\* The metadata body built from the image index.
metadata(imageIndex) ==
    [name |-> name,
     description |-> "An example of an ERC-721 token",
     image |-> <<"WEB_URL", "/assets/character-", imageIndex, ".png">>,
     external_url |-> "WEB_URL",
     image_url |-> <<"WEB_URL", "/assets/character-", imageIndex, ".png">>,
     home_url |-> "WEB_URL"]

\* The handler of /tokens/:tokenId up to its contract call.
tokenMetadata ==
    /\ arrives("tokenMetadata")
    /\ route' = "tokenMetadata"
    /\ LET id == param(req, "tokenId") IN
          IF id = <<>> \/ ~matchDigits(id)
          THEN /\ send(InvalidTokenId)
               /\ hpc' = "done"
               /\ UNCHANGED contractCalls
          ELSE /\ contractCalls' = Append(contractCalls, Call("imageId", <<id>>))
               /\ hpc' = "imageId"
               /\ UNCHANGED responses
    /\ UNCHANGED <<srvVars, req, tokenId, tokenURI, gas, owned, promises, settled>>

\* imageId(...).call() resolves: the metadata is sent.
tokenMetadataResolved ==
    /\ Running /\ route = "tokenMetadata" /\ hpc = "imageId"
    /\ \E imageIndex \in ImageIds : send(metadata(imageIndex))
    /\ hpc' = "done"
    /\ UNCHANGED <<srvVars, req, route, tokenId, tokenURI, gas, owned, promises,
                   settled, contractCalls>>

\* Mutant of tokenMetadataRejected: the rejection is caught and the error is
\* sent, as the other read routes do.
tokenMetadataRejectedSendsError ==
    /\ Running /\ route = "tokenMetadata" /\ hpc = "imageId"
    /\ send(CallError)
    /\ hpc' = "done"
    /\ UNCHANGED <<srvVars, req, route, tokenId, tokenURI, gas, owned, promises,
                   settled, contractCalls>>

\* imageId(...).call() rejects: the promise has no rejection handler in the
\* program, so no callback of the program runs and nothing is sent.
tokenMetadataRejected ==
    /\ Running /\ route = "tokenMetadata" /\ hpc = "imageId"
    /\ hpc' = "unhandledRejection"
    /\ UNCHANGED <<srvVars, req, route, tokenId, tokenURI, gas, owned, promises,
                   settled, contractCalls, responses>>

\* --------------------------------------------- GET /:ownerAddress/tokens
\* A promise of one per-index call.
Pending == [state |-> "pending", val |-> Unset]
Fulfilled(v) == [state |-> "fulfilled", val |-> v]
Failed(e) == [state |-> "rejected", val |-> e]

\* Mutant of joinAll: the values are collected in completion order.
joinInCompletionOrder(ps, order) == [i \in 1..Len(ps) |-> ps[order[i]].val]

\* Promise.all(ps) fulfilled: the values in the order of ps, whatever the
\* order in which the promises completed.
joinAll(ps, order) == [i \in 1..Len(ps) |-> ps[i].val]

allFulfilled(ps) == \A i \in 1..Len(ps) : ps[i].state = "fulfilled"

\* The handler up to its balanceOf call.
ownerTokens ==
    /\ arrives("ownerTokens")
    /\ route' = "ownerTokens"
    /\ contractCalls' =
          Append(contractCalls, Call("balanceOf", <<param(req, "ownerAddress")>>))
    /\ hpc' = "balanceOf"
    /\ UNCHANGED <<srvVars, req, tokenId, tokenURI, gas, owned, promises, settled,
                   responses>>

\* balanceOf resolves with n: one tokenOfOwnerByIndex call is issued for each
\* index below n and the calls are joined; with n = 0 the join is fulfilled
\* at once with the empty list.
ownerTokensBalance ==
    /\ Running /\ route = "ownerTokens" /\ hpc = "balanceOf"
    /\ \E n \in 0..MaxOwned :
          /\ owned' = <<n>>
          /\ promises' = [i \in 1..n |-> Pending]
          /\ contractCalls' = contractCalls \o
                [i \in 1..n |-> Call("tokenOfOwnerByIndex",
                                     <<param(req, "ownerAddress"), i - 1>>)]
          /\ IF n = 0
             THEN send([tokens |-> joinAll(<<>>, <<>>)]) /\ hpc' = "done"
             ELSE hpc' = "all" /\ UNCHANGED responses
    /\ UNCHANGED <<srvVars, req, route, tokenId, tokenURI, gas, settled>>

\* balanceOf rejects: the raw error is sent.
ownerTokensBalanceRejected ==
    /\ Running /\ route = "ownerTokens" /\ hpc = "balanceOf"
    /\ send(CallError)
    /\ hpc' = "done"
    /\ UNCHANGED <<srvVars, req, route, tokenId, tokenURI, gas, owned, promises,
                   settled, contractCalls>>

\* A per-index call resolves; when it is the last one, the join is fulfilled
\* and the token list is sent.
tokenResolved ==
    /\ Running /\ route = "ownerTokens"
    /\ \E i \in 1..Len(promises), v \in TokenValues :
          /\ promises[i].state = "pending"
          /\ promises' = [promises EXCEPT ![i] = Fulfilled(v)]
          /\ settled' = Append(settled, i)
          /\ IF hpc = "all" /\ allFulfilled(promises')
             THEN send([tokens |-> joinAll(promises', settled')]) /\ hpc' = "done"
             ELSE UNCHANGED <<responses, hpc>>
    /\ UNCHANGED <<srvVars, req, route, tokenId, tokenURI, gas, owned,
                   contractCalls>>

\* A per-index call rejects; the first rejection rejects the join and the
\* raw error is sent, later ones change nothing.
tokenRejected ==
    /\ Running /\ route = "ownerTokens"
    /\ \E i \in 1..Len(promises) :
          /\ promises[i].state = "pending"
          /\ promises' = [promises EXCEPT ![i] = Failed(CallError)]
          /\ settled' = Append(settled, i)
          /\ IF hpc = "all"
             THEN send(CallError) /\ hpc' = "done"
             ELSE UNCHANGED <<responses, hpc>>
    /\ UNCHANGED <<srvVars, req, route, tokenId, tokenURI, gas, owned,
                   contractCalls>>

\* -------------------------------------------- GET /:ownerAddress/balance
\* The handler up to its balanceOf call.
ownerBalance ==
    /\ arrives("ownerBalance")
    /\ route' = "ownerBalance"
    /\ contractCalls' =
          Append(contractCalls, Call("balanceOf", <<param(req, "ownerAddress")>>))
    /\ promises' = <<Pending>>
    /\ hpc' = "balanceOf"
    /\ UNCHANGED <<srvVars, req, tokenId, tokenURI, gas, owned, settled, responses>>

\* balanceOf settles: {balance} or the raw error is sent.
ownerBalanceSettled ==
    /\ Running /\ route = "ownerBalance" /\ hpc = "balanceOf"
    /\ \E r \in {Resolved(n) : n \in 0..MaxOwned} \cup {[ok |-> FALSE, val |-> CallError]} :
          IF r.ok
          THEN send([balance |-> r.val]) /\ promises' = <<Fulfilled(r.val)>>
          ELSE send(r.val) /\ promises' = <<Failed(r.val)>>
    /\ hpc' = "done"
    /\ UNCHANGED <<srvVars, req, route, tokenId, tokenURI, gas, owned, settled,
                   contractCalls>>

\* ---------------------------------------------------- POST /tokens/new
\* Bytes of the random token id; the code draws 32, the model HexBytes.
HexBytes == 1
\* Hex digits the random ids of the model are made of.
RandomHexChars == {"0", "9", "a", "f"}
HexChars == <<"0", "1", "2", "3", "4", "5", "6", "7", "8", "9",
              "a", "b", "c", "d", "e", "f">>
DecChars == <<"0", "1", "2", "3", "4", "5", "6", "7", "8", "9">>
\* Gas estimates and transaction hashes the node may answer with.
GasValues == {"21000"}
TxHashes == {"0xT1"}

\* web3.utils.randomHex(size): "0x" followed by 2 * size hex digits.
randomHex(size) == {<<"0", "x">> \o d : d \in [1..2 * size -> RandomHexChars]}

\* The number a sequence of hex digits denotes.
RECURSIVE hexDigitsValue(_)
hexDigitsValue(d) ==
    IF d = <<>> THEN 0
    ELSE 16 * hexDigitsValue(SubSeq(d, 1, Len(d) - 1))
            + (CHOOSE v \in 0..15 : HexChars[v + 1] = d[Len(d)])

\* The decimal rendering of a natural number.
RECURSIVE numberString(_)
numberString(n) ==
    IF n < 10 THEN <<DecChars[n + 1]>>
    ELSE numberString(n \div 10) \o <<DecChars[(n % 10) + 1]>>

\* Mutant of hexToNumberString: the "0x" prefix is dropped and the digits are
\* kept as they are.
hexToNumberStringNoConversion(hex) == SubSeq(hex, 3, Len(hex))

\* web3.utils.hexToNumberString(hex): the decimal string of a "0x" hex string.
hexToNumberString(hex) == numberString(hexDigitsValue(SubSeq(hex, 3, Len(hex))))

\* JavaScript truthiness of a callback argument that is a string or absent.
truthy(v) == v \notin {Unset, ""}

\* Mutant of sendCallback: the branches are not exclusive, an error is
\* followed by the missing-hash response.
sendCallbackFallsThrough(error, transactionHash) ==
    (IF error # {}
     THEN <<[error |-> toString(CHOOSE e \in error : TRUE)]>>
     ELSE <<>>)
    \o (IF truthy(transactionHash)
        THEN <<[transactionHash |-> transactionHash, tokenId |-> tokenId]>>
        ELSE <<[error |-> JsString(<<"The transaction hash could not be found.">>)]>>)

\* The callback given to method.send: the bodies it sends.  error is the set
\* holding the error, empty when the callback gets none.
sendCallback(error, transactionHash) ==
    IF error # {}
    THEN <<[error |-> toString(CHOOSE e \in error : TRUE)]>>
    ELSE IF truthy(transactionHash)
         THEN <<[transactionHash |-> transactionHash, tokenId |-> tokenId]>>
         ELSE <<[error |-> JsString(<<"The transaction hash could not be found.">>)]>>

\* The arguments of the mint method object.
mintArgs == <<req.to, tokenId, tokenURI>>

\* The handler up to estimateGas(): draw the id, build the URI and the method.
mint ==
    /\ arrives("mint")
    /\ route' = "mint"
    /\ \E id \in randomHex(HexBytes) :
          /\ tokenId' = id
          /\ tokenURI' = <<"API_URL", "/tokens/", hexToNumberString(id)>>
    /\ contractCalls' =
          Append(contractCalls,
                 Call("mintWithTokenURI.estimateGas", <<req.to, tokenId', tokenURI'>>))
    /\ hpc' = "estimateGas"
    /\ UNCHANGED <<srvVars, req, gas, owned, promises, settled, responses>>

\* Mutant of mintGasRejected: the transaction is submitted although the
\* estimate failed.
mintGasRejectedStillSends ==
    /\ Running /\ route = "mint" /\ hpc = "estimateGas"
    /\ contractCalls' =
          Append(contractCalls,
                 Call("mintWithTokenURI.send",
                      mintArgs \o <<[from |-> currentAccount, gas |-> Unset,
                                     gasPrice |-> "1100000000"]>>))
    /\ send([error |-> toString(CallError)])
    /\ hpc' = "done"
    /\ UNCHANGED <<srvVars, req, route, tokenId, tokenURI, gas, owned, promises,
                   settled>>

\* estimateGas() rejects: the stringified error is sent, nothing is submitted.
mintGasRejected ==
    /\ Running /\ route = "mint" /\ hpc = "estimateGas"
    /\ send([error |-> toString(CallError)])
    /\ hpc' = "done"
    /\ UNCHANGED <<srvVars, req, route, tokenId, tokenURI, gas, owned, promises,
                   settled, contractCalls>>

\* estimateGas() resolves: method.send is called once; when it throws, the
\* inner catch sends the stringified error.
mintGasResolved ==
    /\ Running /\ route = "mint" /\ hpc = "estimateGas"
    /\ \E g \in GasValues :
          /\ gas' = g
          /\ contractCalls' =
                Append(contractCalls,
                       Call("mintWithTokenURI.send",
                            mintArgs \o <<[from |-> currentAccount, gas |-> g,
                                           gasPrice |-> "1100000000"]>>))
    /\ \E threw \in BOOLEAN :
          IF threw
          THEN send([error |-> toString(ErrorObject("send threw"))]) /\ hpc' = "done"
          ELSE hpc' = "send" /\ UNCHANGED responses
    /\ UNCHANGED <<srvVars, req, route, tokenId, tokenURI, owned, promises, settled>>

\* The node answers the submission: the callback runs once, with an error, a
\* transaction hash or neither.
mintSendCallback ==
    /\ Running /\ route = "mint" /\ hpc = "send"
    /\ \E cb \in {[error |-> {ErrorObject("send failed")}, hash |-> Unset]}
                 \cup {[error |-> {}, hash |-> h] : h \in TxHashes \cup {Unset}} :
          responses' = responses \o sendCallback(cb.error, cb.hash)
    /\ hpc' = "done"
    /\ UNCHANGED <<srvVars, req, route, tokenId, tokenURI, gas, owned, promises,
                   settled, contractCalls>>

\* ------------------ GET /abi, /totalSupply, /name, /mintLimit, /symbol
\* Values the read methods of the contract may return.
TotalSupplies == {"0", "3"}
MintLimits == {"5"}
Symbols == {"TKN"}
TokenURIs == {<<"API_URL", "/tokens/", "7">>}

\* /abi sends the artifacts; no contract call is made.
getAbi ==
    /\ arrives("abi")
    /\ route' = "abi"
    /\ send([networks |-> artifacts])
    /\ hpc' = "done"
    /\ UNCHANGED <<srvVars, req, tokenId, tokenURI, gas, owned, promises, settled,
                   contractCalls>>

\* The body of a handler that is one contract call: the call is issued.
callContract(h, call) ==
    /\ route' = h
    /\ contractCalls' = Append(contractCalls, call)
    /\ promises' = <<Pending>>
    /\ hpc' = "call"
    /\ UNCHANGED <<srvVars, req, tokenId, tokenURI, gas, owned, settled, responses>>

\* The call of handler h is about to settle.
settles(h) == Running /\ route = h /\ hpc = "call"

\* The call settles as p and the callback it runs sends body.
respond(p, body) ==
    /\ promises' = <<p>>
    /\ send(body)
    /\ hpc' = "done"
    /\ UNCHANGED <<srvVars, req, route, tokenId, tokenURI, gas, owned, settled,
                   contractCalls>>

\* catch(error => res.send(error)): the error object itself is the body.
sendRawError(error) == error
\* catch(err => res.send({ error: err.toString() })).
sendErrorString(err) == [error |-> toString(err)]

getTotalSupply ==
    /\ arrives("totalSupply")
    /\ callContract("totalSupply", Call("totalSupply", <<>>))

totalSupplySettled ==
    /\ settles("totalSupply")
    /\ \/ \E totalSupply \in TotalSupplies :
             respond(Fulfilled(totalSupply), JsString(<<totalSupply>>))
       \/ respond(Failed(CallError), sendRawError(CallError))

getName ==
    /\ arrives("name")
    /\ callContract("name", Call("name", <<>>))

nameSettled ==
    /\ settles("name")
    /\ \/ \E n \in Names : respond(Fulfilled(n), [name |-> n])
       \/ respond(Failed(CallError), sendRawError(CallError))

getMintLimit ==
    /\ arrives("mintLimit")
    /\ callContract("mintLimit", Call("mintLimit", <<>>))

mintLimitSettled ==
    /\ settles("mintLimit")
    /\ \/ \E mintLimit \in MintLimits :
             respond(Fulfilled(mintLimit), [mintLimit |-> mintLimit])
       \/ respond(Failed(CallError), sendRawError(CallError))

getSymbol ==
    /\ arrives("symbol")
    /\ callContract("symbol", Call("symbol", <<>>))

symbolSettled ==
    /\ settles("symbol")
    /\ \/ \E symbol \in Symbols : respond(Fulfilled(symbol), [symbol |-> symbol])
       \/ respond(Failed(CallError), sendRawError(CallError))

\* ------------------------------------------- GET /tokenURI/:tokenId
getTokenURI ==
    /\ arrives("tokenURI")
    /\ callContract("tokenURI", Call("tokenURI", <<param(req, "tokenId")>>))

tokenURISettled ==
    /\ settles("tokenURI")
    /\ \/ \E uri \in TokenURIs : respond(Fulfilled(uri), [tokenURI |-> uri])
       \/ respond(Failed(CallError), sendErrorString(CallError))

\* ------------------------------------------------------ specification
HttpNext ==
    \/ getAbi
    \/ getTotalSupply
    \/ totalSupplySettled
    \/ getName
    \/ nameSettled
    \/ getMintLimit
    \/ mintLimitSettled
    \/ getSymbol
    \/ symbolSettled
    \/ getTokenURI
    \/ tokenURISettled
    \/ tokenMetadata
    \/ tokenMetadataResolved
    \/ tokenMetadataRejected
    \/ ownerTokens
    \/ ownerTokensBalance
    \/ ownerTokensBalanceRejected
    \/ tokenResolved
    \/ tokenRejected
    \/ ownerBalance
    \/ ownerBalanceSettled
    \/ mint
    \/ mintGasRejected
    \/ mintGasResolved
    \/ mintSendCallback

\* One request served by the started App.
SpecHttp == HttpInit /\ [][HttpNext]_vars


\* ====================================================== claims C1 - C5
\* C1 as stated: at most one balance query of the refresh loop is in flight
\* in every reachable state.
C1_Original == Cardinality(inflight) <= 1

\* What the timer chain does guarantee: at most one refresh timer is pending
\* at any time (exactly one once startup has completed) and every query in
\* flight was issued by a tick of that chain.
TimerChainIsSingle ==
    /\ timers <= 1
    /\ (pc = "started" => timers = 1)
    /\ inflight \subseteq 1..issued

\* C2 as stated: while the timer for the next tick is armed, the query of
\* the latest tick has already completed.
C2_Original == (timers > 0 /\ issued > 0) => issued \notin inflight

\* What the code does instead: the callback that issues the query of tick n
\* arms the timer for tick n+1 in the same step, before that query settles,
\* and the completion of a query arms nothing.
ArmedAtIssue ==
    [][ /\ (issued' = issued + 1 =>
               timers' = 1 /\ (issued + 1) \in inflight')
        /\ (Cardinality(inflight') < Cardinality(inflight) =>
               timers' = timers) ]_vars

\* The call of Contract.deployed() has settled.
DeployedSettled == calls["deployed"] = 1 /\ (pc # "deployed" \/ ~Running)

\* C3 as stated: with a deployment recorded for the network id the handle is
\* resolved with a non-empty address and start() goes on to the listener
\* (it does not fail); with none recorded start() fails and the listener is
\* never started.
C3_Original ==
    DeployedSettled =>
        IF artifacts[networkId] # NoAddress
        THEN /\ contract = artifacts[networkId] /\ contract # NoAddress
             /\ Running
        ELSE ~Running /\ listening = 0 /\ contract = Unset

\* C3 as amended: with a deployment recorded the handle is resolved with a
\* non-empty address and name() is called; the listener is started when that
\* call resolves and start() fails without a listener when it rejects.  With
\* none recorded start() fails and the listener is never started.
C3_ResolveOrFail ==
    DeployedSettled =>
        IF artifacts[networkId] # NoAddress
        THEN /\ contract = artifacts[networkId] /\ contract # NoAddress
             /\ calls["name"] = 1
             /\ (pc = "started" => listening = 1 /\ name # Unset)
             /\ (~Running => pc = "name" /\ name = Unset /\ listening = 0)
        ELSE ~Running /\ listening = 0 /\ contract = Unset

\* Startup completed on a network with a recorded deployment.
C3_Witness ==
    pc = "started" /\ listening = 1 /\ contract = artifacts[networkId]

\* C4: when the account list is empty or the account, balance or network-id
\* call fails, the process exits with code 1, the failed call is not issued
\* again, and listener, refresh timer and subscription are never started.
C4_EarlyFailureExits ==
    (pc \in {"getAccounts", "getBalance", "getId"} /\ errorLog # <<>>) =>
        /\ exitCode = <<1>>
        /\ Len(errorLog) = 1
        /\ \A s \in StartSteps : calls[s] <= 1
        /\ listening = 0 /\ timers = 0 /\ subscriptions = 0 /\ issued = 0

\* start() failed because the provider exposes no account.
C4_Witness ==
    pc = "getAccounts" /\ errorLog = <<NoAccountFound>> /\ exitCode = <<1>>

\* The startup call of name() was issued and rejected.
NameFailed == calls["name"] = 1 /\ name = Unset /\ errorLog # <<>>

\* C5 as stated: a failed startup name() call does not abort startup; the
\* name stays empty and the listener is still started.
C5_Original == NameFailed => Running /\ listening = 1

\* C5 as amended: a failed startup name() call aborts startup like every
\* other startup failure: it is logged, the process exits with code 1, the
\* name stays unset, and listener, timer and subscription are never started,
\* so the cached name is never read.
C5_NameFailureIsFatal ==
    NameFailed =>
        /\ exitCode = <<1>> /\ errorLog = <<RpcError>>
        /\ contract # Unset
        /\ listening = 0 /\ timers = 0 /\ subscriptions = 0
        /\ rootResponse = <<>>

\* name() rejected after the handle was resolved.
C5_Witness == NameFailed /\ pc = "name" /\ contract \in Addresses /\ ~Running

\* ===================================================== claims C6 - C10
\* req is a GET of /tokens/<id> whose id is not made of decimal digits only.
NonDigitTokenRequest ==
    /\ req.method = "GET" /\ Len(req.path) = 2
    /\ req.path[1] = Str_tokens /\ ~matchDigits(req.path[2])

\* C6 as stated: every GET /tokens/<id> request whose id is not all digits is
\* answered with the invalid-token-id body and no contract call is made for it.
C6_Original ==
    (NonDigitTokenRequest /\ route # "none") =>
        responses = <<InvalidTokenId>> /\ contractCalls = <<>>

\* What the handler itself guarantees: a request that reaches the
\* /tokens/:tokenId handler with a non-digit id is rejected without a call.
C6_HandlerRejects ==
    (NonDigitTokenRequest /\ route = "tokenMetadata") =>
        responses = <<InvalidTokenId>> /\ contractCalls = <<>> /\ hpc = "done"

\* The contract calls made for req whose method is m.
callsOf(m) == {i \in 1..Len(contractCalls) : contractCalls[i].method = m}

\* Gas estimation of the mint request has failed.
GasEstimationFailed == route = "mint" /\ hpc = "done" /\ gas = Unset

\* C7: when gas estimation fails the body is exactly {error: <stringified
\* error>} and method.send is never called for the request.
C7_NoSendAfterFailedEstimate ==
    GasEstimationFailed =>
        /\ responses = <<[error |-> toString(CallError)]>>
        /\ callsOf("mintWithTokenURI.send") = {}

\* A mint request was answered after its gas estimation failed.
C7_Witness == GasEstimationFailed /\ Len(responses) = 1

\* A body of the shape {error: <string>}.
isErrorString(body) == DOMAIN body = {"error"} /\ DOMAIN body.error = {"str"}
\* A body of the shape {transactionHash, tokenId}.
isMinted(body) == DOMAIN body = {"transactionHash", "tokenId"}

\* C8: a mint request gets no response before its calls settle and exactly
\* one once they have: {transactionHash, tokenId} with the hash the submission
\* yielded, otherwise {error: <string>}; the transaction is estimated once and
\* submitted at most once.
C8_ExactlyOneResponse ==
    route = "mint" =>
        /\ Len(responses) = (IF hpc = "done" THEN 1 ELSE 0)
        /\ Cardinality(callsOf("mintWithTokenURI.estimateGas")) = 1
        /\ Cardinality(callsOf("mintWithTokenURI.send")) <= 1
        /\ \A i \in 1..Len(responses) :
              \/ isErrorString(responses[i])
              \/ /\ isMinted(responses[i])
                 /\ responses[i].transactionHash \in TxHashes
                 /\ Cardinality(callsOf("mintWithTokenURI.send")) = 1

\* The mint request succeeded.
MintSucceeded ==
    route = "mint" /\ hpc = "done" /\ Len(responses) = 1 /\ isMinted(responses[1])

\* A mint request was answered with the hash its one submission yielded.
C8_Witness ==
    /\ MintSucceeded /\ responses[1].transactionHash \in TxHashes
    /\ Cardinality(callsOf("mintWithTokenURI.send")) = 1

\* The number a decimal string denotes.
RECURSIVE decimalValue(_)
decimalValue(str) ==
    IF str = <<>> THEN 0
    ELSE 10 * decimalValue(SubSeq(str, 1, Len(str) - 1))
            + (CHOOSE v \in 0..9 : DecChars[v + 1] = str[Len(str)])

\* C9 as stated: the tokenId of a successful response is the decimal string
\* of the generated value, the string embedded in the token URI.
C9_Original ==
    MintSucceeded =>
        /\ responses[1].tokenId = hexToNumberString(tokenId)
        /\ responses[1].tokenId = tokenURI[3]

\* C9 as amended: the tokenId of a successful response is the generated value
\* as the "0x" hex string randomHex returned, which is no decimal string; the
\* token URI passed to the mint call embeds the decimal string of that value.
C9_HexInBodyDecimalInURI ==
    MintSucceeded =>
        /\ responses[1].tokenId = tokenId
        /\ Len(tokenId) = 2 + 2 * HexBytes
        /\ SubSeq(tokenId, 1, 2) = <<"0", "x">>
        /\ ~matchDigits(responses[1].tokenId)
        /\ matchDigits(tokenURI[3])
        /\ decimalValue(tokenURI[3])
              = hexDigitsValue(SubSeq(responses[1].tokenId, 3, Len(tokenId)))
        /\ \A i \in callsOf("mintWithTokenURI.send") :
              contractCalls[i].args[2] = tokenId /\ contractCalls[i].args[3] = tokenURI

\* A mint succeeded for an id whose hex digits include letters.
C9_Witness ==
    MintSucceeded /\ \E i \in 3..Len(tokenId) : ~isDigit(tokenId[i])

\* A per-index call or balanceOf of the owner-tokens request has failed.
OwnerTokensFailed ==
    \/ hpc = "done" /\ owned = <<>>
    \/ \E i \in 1..Len(promises) : promises[i].state = "rejected"

\* C10: a token list sent by /:ownerAddress/tokens has balanceOf(owner)
\* elements, the i-th being the result of tokenOfOwnerByIndex(owner, i), in
\* index order whatever the completion order; when balanceOf or a per-index
\* call fails exactly one response, the error, is sent and no token list.
C10_TokensInIndexOrder ==
    route = "ownerTokens" =>
        /\ Len(responses) = (IF hpc = "done" THEN 1 ELSE 0)
        /\ \A r \in 1..Len(responses) :
              IF OwnerTokensFailed
              THEN responses[r] = CallError
              ELSE /\ DOMAIN responses[r] = {"tokens"}
                   /\ Len(responses[r].tokens) = owned[1]
                   /\ Len(promises) = owned[1]
                   /\ \A i \in 1..owned[1] :
                         /\ promises[i].state = "fulfilled"
                         /\ responses[r].tokens[i] = promises[i].val
                         /\ contractCalls[i + 1] =
                               Call("tokenOfOwnerByIndex", <<req.path[1], i - 1>>)

\* A list of two different tokens was sent after the calls completed in
\* reverse index order.
C10_Witness ==
    /\ route = "ownerTokens" /\ Len(responses) = 1
    /\ DOMAIN responses[1] = {"tokens"}
    /\ settled = <<2, 1>>
    /\ responses[1].tokens = <<"11", "22">>

\* ==================================================== claims C11 - C17
\* The RPC call the request depends on has failed and the callback that
\* handles the failure has run.
RpcFailed ==
    \/ /\ route \in {"totalSupply", "name", "mintLimit", "symbol",
                     "ownerBalance", "tokenURI"}
       /\ promises # <<>> /\ promises[1].state = "rejected"
    \/ route = "ownerTokens" /\ hpc = "done" /\ OwnerTokensFailed
    \/ GasEstimationFailed
    \/ route = "mint" /\ hpc = "done" /\ gas # Unset /\ ~MintSucceeded

\* No contract call of the request was issued twice.
NoRetry ==
    \A i, j \in 1..Len(contractCalls) :
        (/\ contractCalls[i].method = contractCalls[j].method
         /\ contractCalls[i].args = contractCalls[j].args) => i = j

\* The keys of the JSON object sent for body: serialisation keeps own
\* properties only, it adds none.
jsonKeys(body) == DOMAIN body

\* C11 as stated: on every route with a failure body, when the RPC call the
\* request depends on fails the call is not retried and the one response sent
\* has a body with an `error` field.
C11_Original ==
    RpcFailed =>
        /\ NoRetry
        /\ Len(responses) = 1
        /\ "error" \in jsonKeys(responses[1])

\* What the handlers do: the failure is answered once and never retried; the
\* body is {error: <string>} on /tokenURI/:tokenId and /tokens/new and the
\* caught error object itself, which has no `error` key, on the other six.
FailureAnsweredOnce ==
    RpcFailed =>
        /\ NoRetry
        /\ Len(responses) = 1
        /\ IF route \in {"tokenURI", "mint"}
           THEN isErrorString(responses[1])
           ELSE responses[1] = CallError /\ "error" \notin jsonKeys(responses[1])

\* C12: once the listener is started, network id, current account, contract
\* handle and cached name never change; the balance is changed only by the
\* completion of a query of the refresh loop, never by the GET / handler or
\* a Transfer event handler.
C12_FieldsFixedAfterStartup ==
    [][ listening > 0 =>
          /\ UNCHANGED <<networkId, currentAccount, contract, name>>
          /\ (balance' # balance =>
                /\ \E q \in inflight : inflight' = inflight \ {q}
                /\ Len(written') = Len(written) + 1
                /\ UNCHANGED <<eventVars, rootResponse, httpVars>>) ]_vars

\* The refresh loop has changed the balance after Transfer events and a
\* stream error were handled and GET / was served.
C12_Witness ==
    /\ listening > 0 /\ events > 0 /\ streamErrors > 0 /\ rootResponse # <<>>
    /\ written # <<>> /\ balance # rootResponse[1].balance

\* The other route handlers: serving a request assigns no field of the App.
HandlersKeepAppState == [][UNCHANGED <<appVars, artifacts>>]_vars

\* C13: when a query of the refresh loop settles, a success stores the
\* returned value as the balance and a failure is logged and leaves the
\* balance as it was; either way the process keeps running and the timer
\* of the next tick stays armed.
C13_RefreshOutcome ==
    [][ (\E q \in inflight : inflight' = inflight \ {q}) =>
          /\ \/ /\ Len(written') = Len(written) + 1
                /\ balance' = written'[Len(written')].balance
                /\ balance' \in Balances
                /\ UNCHANGED errorLog
             \/ /\ UNCHANGED <<balance, written>>
                /\ errorLog' = Append(errorLog, RpcError)
          /\ UNCHANGED <<currentAccount, networkId, contract, name>>
          /\ exitCode' = <<>>
          /\ timers' = 1 /\ timers = 1 ]_vars

\* After a query that succeeded and one that failed the balance is the one
\* the successful query returned and the next timer is armed.
C13_Witness ==
    /\ Len(written) = 1 /\ errorLog = <<RpcError>> /\ inflight = {}
    /\ balance = written[1].balance
    /\ Running /\ timers = 1

\* req reached the /tokens/:tokenId handler with an id made of digits only.
AllDigitTokenRequest ==
    route = "tokenMetadata" /\ matchDigits(param(req, "tokenId"))

\* C14: for an all-digit id imageId is called once; nothing is sent while
\* the call is pending and nothing is ever sent once it has failed, the
\* failure is not logged and does not end the process; when the call
\* succeeds exactly one response, the metadata, is sent.
C14_SilentOnFailure ==
    AllDigitTokenRequest =>
        /\ contractCalls = <<Call("imageId", <<param(req, "tokenId")>>)>>
        /\ hpc \in {"imageId", "unhandledRejection", "done"}
        /\ (hpc # "done" => responses = <<>>)
        /\ (hpc = "done" => \E imageIndex \in ImageIds :
                               responses = <<metadata(imageIndex)>>)
        /\ Running /\ errorLog = <<>>

\* The imageId call of an all-digit request has failed.
C14_Witness ==
    AllDigitTokenRequest /\ hpc = "unhandledRejection" /\ responses = <<>>

\* C15: the Transfer subscription is made once, by the step that completes
\* startup, and never again; a step that handles a data event or a stream
\* error changes no field of the App, makes no subscription and leaves
\* listener, refresh loop and process as they were.
C15_SubscribedOnce ==
    [][ /\ subscriptions' <= 1
        /\ (subscriptions' # subscriptions => pc = "name" /\ pc' = "started")
        /\ (pc' = "started" => subscriptions' = 1)
        /\ ((events' # events \/ streamErrors' # streamErrors) =>
               UNCHANGED <<appVars, subscriptions, listening, loopVars,
                           procVars, pc>>) ]_vars

\* A data event and a stream error were handled under the one subscription.
C15_Witness ==
    subscriptions = 1 /\ events > 0 /\ streamErrors > 0 /\ Running

\* C16: whenever the listener is started the account, the balance, the
\* network id, the contract handle and the name are set; the refresh timer
\* and the Transfer subscription exist only with the listener started; so
\* every field of a GET / response is set.
C16_ListenerAfterFields ==
    /\ (listening > 0 =>
          /\ currentAccount \in Accounts
          /\ balance \in Balances
          /\ networkId \in NetworkIds
          /\ contract \in Addresses /\ contract = artifacts[networkId]
          /\ name \in Names)
    /\ ((timers > 0 \/ issued > 0 \/ subscriptions > 0) => listening > 0)
    /\ (listening > 0 => timers = 1 /\ subscriptions = 1)
    /\ \A i \in 1..Len(rootResponse) :
          /\ rootResponse[i].networkId \in NetworkIds
          /\ rootResponse[i].contractAddress \in Addresses
          /\ rootResponse[i].address \in Accounts
          /\ rootResponse[i].balance \in Balances
          /\ rootResponse[i].name \in Names

\* GET / was answered by the started App.
C16_Witness ==
    /\ pc = "started" /\ listening = 1 /\ timers = 1 /\ subscriptions = 1
    /\ rootResponse = <<[networkId |-> networkId, contractAddress |-> contract,
                         address |-> currentAccount, balance |-> balance,
                         name |-> name]>>

\* C17 as stated: the results of the refresh queries are stored in the order
\* the queries were issued, so the stored balance is the result of the latest
\* issued query among those that succeeded.
C17_Original ==
    /\ \A i, j \in 1..Len(written) :
          i < j => written[i].query < written[j].query
    /\ (written # <<>> =>
          /\ balance = written[Len(written)].balance
          /\ \A i \in 1..Len(written) :
                written[i].query <= written[Len(written)].query)

\* What the code does guarantee: the stored balance is the result of the
\* query that completed last among those that succeeded, whenever it was
\* issued, and each query writes at most once.
BalanceIsLastCompleted ==
    /\ (written # <<>> => balance = written[Len(written)].balance)
    /\ \A i, j \in 1..Len(written) :
          written[i].query = written[j].query => i = j
    /\ \A i \in 1..Len(written) :
          written[i].query \in 1..issued /\ written[i].query \notin inflight

=============================================================================
